---- MODULE Spec2Model ----
(***************************************************************************)
(* go-minesweeper: the grid (field state, reveal / flag / revealAll) and   *)
(* the Game loop, in the two variants the repository holds:                *)
(*   "internal" : src/internal/internal.go  (type grid struct{fields})     *)
(*   "main"     : src/minesweeper.go        (type grid [][]field)          *)
(* Rows and columns are 0-based, as in the code; an input line is the      *)
(* sequence of its bytes.                                                  *)
(***************************************************************************)
EXTENDS Integers, Sequences, FiniteSets, TLC

VARIABLES
    impl,            \* which variant of the code runs: "internal" or "main"
    fields,          \* grid.fields: row -> col -> field
    isAlive,         \* Game: local isAlive
    revealedFields,  \* Game: local revealedFields
    noMineFields,    \* Game: local noMineFields
    pc,              \* "loop" | "done" | "exited" (Game), "test" (direct calls)
    lastErr,         \* Game: the error the last loop iteration printed (Nil if none)
    outcome,         \* Game: the final message printed ("none" before it)
    revealAllCalls,  \* the arguments of the revealAll calls made so far
    ret,             \* direct calls: the last call and what it returned
    prev,            \* direct calls: the grid before the last call (as constructed until then)
    ncalls           \* direct calls: how many were made

vars == <<impl, fields, isAlive, revealedFields, noMineFields, pc, lastErr,
          outcome, revealAllCalls, ret, prev, ncalls>>

----------------------------------------------------------------------------
(* Program constants *)

RowMin == 3
ColMin == 3
rowMax == 9
colMax == 9
\* readAndParseInput accepts lines of MinLineLen..MaxLineLen bytes
MinLineLen == 2
MaxLineLen == 3

(* Model bounds *)

\* the longest line handed to readAndParseInput by SpecParse
MaxLine == 4

\* the board the model plays on: the smallest NewGrid accepts
Rows == RowMin
Cols == ColMin
\* direct calls made on one grid by the test driver of SpecGrid
MaxCalls == 3

Impls == {"internal", "main"}

Nil == "nil"
ErrInvalidRowCol == "invalid row or column"
ErrAlreadyDefused == "already defused"
ErrInvalidInput == "invalid input"
ErrInvalidSize == "invalid grid size"
ErrInvalidMine == "invalid mine"
ErrInvalidMines == "invalid mines"
ErrRead == "read error"

Max(a, b) == IF a > b THEN a ELSE b
Min(a, b) == IF a < b THEN a ELSE b

----------------------------------------------------------------------------
(* The grid *)

ZeroField ==
    [isMine |-> FALSE, isRevealed |-> FALSE, adjacentMines |-> 0, isFlagged |-> FALSE]

rows(g) == Cardinality(DOMAIN g)

cols(g) == IF rows(g) < 1 THEN 0 ELSE Cardinality(DOMAIN g[0])

Cells(g) == {rc \in (0 .. rows(g) - 1) \X (0 .. cols(g) - 1) : TRUE}

mines(g) == Cardinality({rc \in Cells(g) : g[rc[1]][rc[2]].isMine})

\* the guard shared by reveal, flag and NewGrid's mine loop
OutOfGrid(g, row, col) ==
    row < 0 \/ rows(g) <= row \/ col < 0 \/ cols(g) <= col

\* WindowMines with the slices' upper bounds one too low (row+1, col+1)
WindowMines_short(g, row, col) ==
    Cardinality({rc \in (Max(row - 1, 0) .. Min(row + 1, rows(g)) - 1)
                        \X (Max(col - 1, 0) .. Min(col + 1, cols(g)) - 1) :
                    g[rc[1]][rc[2]].isMine})

\* the mines in g.fields[max(row-1,0):min(row+2,len)] x [max(col-1,0):min(col+2,len)]
WindowMines(g, row, col) ==
    Cardinality({rc \in (Max(row - 1, 0) .. Min(row + 2, rows(g)) - 1)
                        \X (Max(col - 1, 0) .. Min(col + 2, cols(g)) - 1) :
                    g[rc[1]][rc[2]].isMine})

\* reveal that reports a revealed mine as survived
reveal_mineSurvived(v, g, coord) ==
    LET row == coord[1]
        col == coord[2]
    IN  IF OutOfGrid(g, row, col)
        THEN [g |-> g, alive |-> (v = "main"), err |-> ErrInvalidRowCol]
        ELSE IF g[row][col].isRevealed
        THEN [g |-> g, alive |-> (v = "main"), err |-> ErrAlreadyDefused]
        ELSE LET g1 == [g EXCEPT ![row][col].isRevealed = TRUE]
             IN  IF g1[row][col].isMine
                 THEN [g |-> g1, alive |-> TRUE, err |-> Nil]
                 ELSE [g |-> [g1 EXCEPT ![row][col].adjacentMines =
                                    @ + WindowMines(g1, row, col)],
                       alive |-> TRUE, err |-> Nil]

\* reveal that counts the neighbourhood before it looks at isMine
reveal_countFirst(v, g, coord) ==
    LET row == coord[1]
        col == coord[2]
    IN  IF OutOfGrid(g, row, col)
        THEN [g |-> g, alive |-> (v = "main"), err |-> ErrInvalidRowCol]
        ELSE IF g[row][col].isRevealed
        THEN [g |-> g, alive |-> (v = "main"), err |-> ErrAlreadyDefused]
        ELSE LET g1 == [g EXCEPT ![row][col].isRevealed = TRUE,
                                 ![row][col].adjacentMines = @ + WindowMines(g, row, col)]
             IN  [g |-> g1, alive |-> ~g1[row][col].isMine, err |-> Nil]

\* reveal without the isRevealed check
reveal_noRevealedCheck(v, g, coord) ==
    LET row == coord[1]
        col == coord[2]
    IN  IF OutOfGrid(g, row, col)
        THEN [g |-> g, alive |-> (v = "main"), err |-> ErrInvalidRowCol]
        ELSE LET g1 == [g EXCEPT ![row][col].isRevealed = TRUE]
             IN  IF g1[row][col].isMine
                 THEN [g |-> g1, alive |-> FALSE, err |-> Nil]
                 ELSE [g |-> [g1 EXCEPT ![row][col].adjacentMines =
                                    @ + WindowMines(g1, row, col)],
                       alive |-> TRUE, err |-> Nil]

\* reveal that counts the neighbourhood of a revealed cell before rejecting it
reveal_countThenReject(v, g, coord) ==
    LET row == coord[1]
        col == coord[2]
    IN  IF OutOfGrid(g, row, col)
        THEN [g |-> g, alive |-> (v = "main"), err |-> ErrInvalidRowCol]
        ELSE IF g[row][col].isRevealed
        THEN [g |-> [g EXCEPT ![row][col].adjacentMines = @ + WindowMines(g, row, col)],
              alive |-> (v = "main"), err |-> ErrAlreadyDefused]
        ELSE LET g1 == [g EXCEPT ![row][col].isRevealed = TRUE]
             IN  IF g1[row][col].isMine
                 THEN [g |-> g1, alive |-> FALSE, err |-> Nil]
                 ELSE [g |-> [g1 EXCEPT ![row][col].adjacentMines =
                                    @ + WindowMines(g1, row, col)],
                       alive |-> TRUE, err |-> Nil]

\* reveal that clears isMine of the mine it reveals
reveal_clearsMine(v, g, coord) ==
    LET row == coord[1]
        col == coord[2]
    IN  IF OutOfGrid(g, row, col)
        THEN [g |-> g, alive |-> (v = "main"), err |-> ErrInvalidRowCol]
        ELSE IF g[row][col].isRevealed
        THEN [g |-> g, alive |-> (v = "main"), err |-> ErrAlreadyDefused]
        ELSE LET g1 == [g EXCEPT ![row][col].isRevealed = TRUE]
             IN  IF g1[row][col].isMine
                 THEN [g |-> [g1 EXCEPT ![row][col].isMine = FALSE],
                       alive |-> FALSE, err |-> Nil]
                 ELSE [g |-> [g1 EXCEPT ![row][col].adjacentMines =
                                    @ + WindowMines(g1, row, col)],
                       alive |-> TRUE, err |-> Nil]

\* reveal that refuses a flagged cell
reveal_refusesFlagged(v, g, coord) ==
    LET row == coord[1]
        col == coord[2]
    IN  IF OutOfGrid(g, row, col)
        THEN [g |-> g, alive |-> (v = "main"), err |-> ErrInvalidRowCol]
        ELSE IF g[row][col].isRevealed \/ g[row][col].isFlagged
        THEN [g |-> g, alive |-> (v = "main"), err |-> ErrAlreadyDefused]
        ELSE LET g1 == [g EXCEPT ![row][col].isRevealed = TRUE]
             IN  IF g1[row][col].isMine
                 THEN [g |-> g1, alive |-> FALSE, err |-> Nil]
                 ELSE [g |-> [g1 EXCEPT ![row][col].adjacentMines =
                                    @ + WindowMines(g1, row, col)],
                       alive |-> TRUE, err |-> Nil]

\* reveal that also uncovers the whole window of a cell with no mine around it
reveal_flood(v, g, coord) ==
    LET row == coord[1]
        col == coord[2]
    IN  IF OutOfGrid(g, row, col)
        THEN [g |-> g, alive |-> (v = "main"), err |-> ErrInvalidRowCol]
        ELSE IF g[row][col].isRevealed
        THEN [g |-> g, alive |-> (v = "main"), err |-> ErrAlreadyDefused]
        ELSE LET g1 == [g EXCEPT ![row][col].isRevealed = TRUE]
             IN  IF g1[row][col].isMine
                 THEN [g |-> g1, alive |-> FALSE, err |-> Nil]
                 ELSE IF WindowMines(g1, row, col) = 0
                 THEN [g |-> [r \in DOMAIN g1 |-> [c \in DOMAIN g1[r] |->
                                IF r - row \in {-1, 0, 1} /\ c - col \in {-1, 0, 1}
                                THEN [g1[r][c] EXCEPT !.isRevealed = TRUE]
                                ELSE g1[r][c]]],
                       alive |-> TRUE, err |-> Nil]
                 ELSE [g |-> [g1 EXCEPT ![row][col].adjacentMines =
                                    @ + WindowMines(g1, row, col)],
                       alive |-> TRUE, err |-> Nil]

\* reveal that counts a second reveal of a cell as a new one
reveal_againSucceeds(v, g, coord) ==
    LET row == coord[1]
        col == coord[2]
    IN  IF OutOfGrid(g, row, col)
        THEN [g |-> g, alive |-> (v = "main"), err |-> ErrInvalidRowCol]
        ELSE IF g[row][col].isRevealed
        THEN [g |-> g, alive |-> ~g[row][col].isMine, err |-> Nil]
        ELSE LET g1 == [g EXCEPT ![row][col].isRevealed = TRUE]
             IN  IF g1[row][col].isMine
                 THEN [g |-> g1, alive |-> FALSE, err |-> Nil]
                 ELSE [g |-> [g1 EXCEPT ![row][col].adjacentMines =
                                    @ + WindowMines(g1, row, col)],
                       alive |-> TRUE, err |-> Nil]

\* reveal: [g |-> the grid afterwards, alive |-> first result, err |-> second result]
reveal(v, g, coord) ==
    LET row == coord[1]
        col == coord[2]
    IN  IF OutOfGrid(g, row, col)
        THEN [g |-> g, alive |-> (v = "main"), err |-> ErrInvalidRowCol]
        ELSE IF g[row][col].isRevealed
        THEN [g |-> g, alive |-> (v = "main"), err |-> ErrAlreadyDefused]
        ELSE LET g1 == [g EXCEPT ![row][col].isRevealed = TRUE]
             IN  IF g1[row][col].isMine
                 THEN [g |-> g1, alive |-> FALSE, err |-> Nil]
                 ELSE [g |-> [g1 EXCEPT ![row][col].adjacentMines =
                                    @ + WindowMines(g1, row, col)],
                       alive |-> TRUE, err |-> Nil]

\* flag that toggles the nearest cell of the grid before it rejects the coordinate
flag_clamped(v, g, coord) ==
    LET row == Max(0, Min(coord[1], rows(g) - 1))
        col == Max(0, Min(coord[2], cols(g) - 1))
    IN  [g |-> [g EXCEPT ![row][col].isFlagged = ~@],
         err |-> IF OutOfGrid(g, coord[1], coord[2]) THEN ErrInvalidRowCol ELSE Nil]

\* flag that sets the flag instead of toggling it
flag_setsOnly(v, g, coord) ==
    LET row == coord[1]
        col == coord[2]
    IN  IF OutOfGrid(g, row, col)
        THEN [g |-> g, err |-> ErrInvalidRowCol]
        ELSE [g |-> [g EXCEPT ![row][col].isFlagged = TRUE], err |-> Nil]

\* flag that refuses a revealed cell
flag_refusesRevealed(v, g, coord) ==
    LET row == coord[1]
        col == coord[2]
    IN  IF OutOfGrid(g, row, col)
        THEN [g |-> g, err |-> ErrInvalidRowCol]
        ELSE IF g[row][col].isRevealed
        THEN [g |-> g, err |-> ErrAlreadyDefused]
        ELSE [g |-> [g EXCEPT ![row][col].isFlagged = ~@], err |-> Nil]

\* flag: [g |-> the grid afterwards, err |-> result]
flag(v, g, coord) ==
    LET row == coord[1]
        col == coord[2]
    IN  IF OutOfGrid(g, row, col)
        THEN [g |-> g, err |-> ErrInvalidRowCol]
        ELSE [g |-> [g EXCEPT ![row][col].isFlagged = ~@], err |-> Nil]

\* revealAll: the grid afterwards.  internal.go ranges over the fields by
\* value (for _, field := range rowFields) and assigns to the copy;
\* minesweeper.go assigns to g[row][col].
revealAll(v, g, isVictory) ==
    IF v = "internal"
    THEN g
    ELSE [row \in DOMAIN g |-> [col \in DOMAIN g[row] |->
            IF g[row][col].isMine
            THEN [g[row][col] EXCEPT !.isRevealed = TRUE, !.isFlagged = isVictory]
            ELSE g[row][col]]]

----------------------------------------------------------------------------
(* Rendering: a glyph is its code point *)

FlagGlyph == 128681
HiddenGlyph == 129001
MineGlyph == 128163
FullwidthZero == 65296
LabelOne == 9352

\* rowColLabelGlyph: [glyph, err]
rowColLabelGlyph(num) ==
    IF num < 0 \/ rowMax <= num \/ colMax <= num
    THEN [glyph |-> 0, err |-> "invalid num"]
    ELSE [glyph |-> LabelOne + num, err |-> Nil]

\* adjacentMinesGlyph: [glyph, err]
adjacentMinesGlyph(num) ==
    IF num < 0 \/ rowMax <= num \/ colMax <= num
    THEN [glyph |-> 0, err |-> "invalid num"]
    ELSE [glyph |-> FullwidthZero + num, err |-> Nil]

\* the cell switch of String with the revealed test before the flag test
CellGlyph_hiddenFirst(f) ==
    IF ~f.isRevealed THEN HiddenGlyph
    ELSE IF f.isFlagged THEN FlagGlyph
    ELSE IF f.isMine THEN MineGlyph
    ELSE adjacentMinesGlyph(f.adjacentMines).glyph

\* String: the rune written for one field (the error of the lookup is dropped)
CellGlyph(f) ==
    IF f.isFlagged THEN FlagGlyph
    ELSE IF ~f.isRevealed THEN HiddenGlyph
    ELSE IF f.isMine THEN MineGlyph
    ELSE adjacentMinesGlyph(f.adjacentMines).glyph

\* String: the header of column labels, then per row its label and its cells' runes
String(g) ==
    <<[col \in DOMAIN g[0] |-> rowColLabelGlyph(col).glyph]>> \o
    [i \in 1 .. rows(g) |->
        [label |-> rowColLabelGlyph(i - 1).glyph,
         cells |-> [col \in DOMAIN g[i - 1] |-> CellGlyph(g[i - 1][col])]]]

----------------------------------------------------------------------------
(* Construction *)

RECURSIVE PlaceMines_skipsBad(_, _)
\* NewGrid's loop over mines, stepping over a mine outside the grid
PlaceMines_skipsBad(g, ms) ==
    IF ms = <<>> THEN [g |-> g, err |-> Nil]
    ELSE LET row == Head(ms)[1]
             col == Head(ms)[2]
         IN  IF OutOfGrid(g, row, col)
             THEN PlaceMines_skipsBad(g, Tail(ms))
             ELSE PlaceMines_skipsBad([g EXCEPT ![row][col].isMine = TRUE], Tail(ms))

RECURSIVE PlaceMines(_, _)
\* NewGrid's loop over mines: stops at the first mine outside the grid
PlaceMines(g, ms) ==
    IF ms = <<>> THEN [g |-> g, err |-> Nil]
    ELSE LET row == Head(ms)[1]
             col == Head(ms)[2]
         IN  IF OutOfGrid(g, row, col)
             THEN [g |-> <<>>, err |-> ErrInvalidMine]
             ELSE PlaceMines([g EXCEPT ![row][col].isMine = TRUE], Tail(ms))

\* NewGrid that rejects the largest size (rowMax <= rows, colMax <= cols)
NewGrid_maxExclusive(v, nrows, ncols, ms, minesNil) ==
    IF v = "main" /\ minesNil
    THEN [g |-> <<>>, err |-> ErrInvalidMines]
    ELSE IF nrows < RowMin \/ rowMax <= nrows \/ ncols < ColMin \/ colMax <= ncols
    THEN [g |-> <<>>, err |-> ErrInvalidSize]
    ELSE PlaceMines([row \in 0 .. nrows - 1 |-> [col \in 0 .. ncols - 1 |-> ZeroField]], ms)

\* NewGrid(rows, cols, mines); minesNil: the slice passed is nil
NewGrid(v, nrows, ncols, ms, minesNil) ==
    IF v = "main" /\ minesNil
    THEN [g |-> <<>>, err |-> ErrInvalidMines]
    ELSE IF nrows < RowMin \/ rowMax < nrows \/ ncols < ColMin \/ colMax < ncols
    THEN [g |-> <<>>, err |-> ErrInvalidSize]
    ELSE PlaceMines([row \in 0 .. nrows - 1 |-> [col \in 0 .. ncols - 1 |-> ZeroField]], ms)

\* the list NewMines fills before shuffling: mines[row*cols+col] = {row, col}
AllCoords(nrows, ncols) ==
    [i \in 1 .. nrows * ncols |-> <<(i - 1) \div ncols, (i - 1) % ncols>>]

RECURSIVE Shuffle(_, _)
\* rand.Shuffle: the swaps it asks the callback for (0-based i, j), in order
Shuffle(list, swaps) ==
    IF swaps = <<>> THEN list
    ELSE LET i == Head(swaps)[1] + 1
             j == Head(swaps)[2] + 1
         IN  Shuffle([list EXCEPT ![i] = list[j], ![j] = list[i]], Tail(swaps))

\* NewMines(rows, cols, count) when rand.Shuffle performs `swaps`
NewMines(nrows, ncols, count, swaps) ==
    SubSeq(Shuffle(AllCoords(nrows, ncols), swaps), 1, count)

\* the runs of rand.Shuffle the model draws from: no swap (row-major order),
\* the centre cell moved to the end, the centre cell moved to the front
ShuffleRuns == { <<>>, <<<<4, 8>>>>, <<<<0, 4>>>> }

Grids(v) ==
    { NewGrid(v, Rows, Cols, NewMines(Rows, Cols, count, swaps), FALSE).g :
        count \in 0 .. Rows * Cols, swaps \in ShuffleRuns }

----------------------------------------------------------------------------
(* Input *)

Digits == {"0", "1", "2", "3", "4", "5", "6", "7", "8", "9"}

\* strconv.Atoi of a one-byte string: [n, ok]
Atoi1(ch) ==
    IF ch \in Digits
    THEN [n |-> CHOOSE n \in 0 .. 9 : <<"0", "1", "2", "3", "4", "5", "6", "7", "8", "9">>[n + 1] = ch,
          ok |-> TRUE]
    ELSE [n |-> 0, ok |-> FALSE]

\* readAndParseInput without the test of the third byte
readAndParseInput_anyThird(v, input, scanErr) ==
    LET errCoord == IF v = "main" THEN <<-1, -1>> ELSE <<0, 0>>
        invalid == [coord |-> errCoord, flag |-> FALSE, err |-> ErrInvalidInput]
    IN  IF scanErr
        THEN [coord |-> errCoord, flag |-> FALSE, err |-> ErrRead]
        ELSE IF Len(input) < MinLineLen \/ MaxLineLen < Len(input)
        THEN invalid
        ELSE IF ~Atoi1(input[1]).ok \/ ~Atoi1(input[2]).ok
        THEN invalid
        ELSE [coord |-> <<Atoi1(input[1]).n - 1, Atoi1(input[2]).n - 1>>,
              flag |-> (Len(input) = 3), err |-> Nil]

\* readAndParseInput once Scan() returned true: [coord, flag, err];
\* scanErr: inputScanner.Err() is not nil
readAndParseInput(v, input, scanErr) ==
    LET errCoord == IF v = "main" THEN <<-1, -1>> ELSE <<0, 0>>
        invalid == [coord |-> errCoord, flag |-> FALSE, err |-> ErrInvalidInput]
    IN  IF scanErr
        THEN [coord |-> errCoord, flag |-> FALSE, err |-> ErrRead]
        ELSE IF Len(input) < MinLineLen \/ MaxLineLen < Len(input)
        THEN invalid
        ELSE IF ~Atoi1(input[1]).ok \/ ~Atoi1(input[2]).ok
        THEN invalid
        ELSE IF Len(input) = 3 /\ input[3] # "f"
        THEN invalid
        ELSE [coord |-> <<Atoi1(input[1]).n - 1, Atoi1(input[2]).n - 1>>,
              flag |-> (Len(input) = 3), err |-> Nil]

\* the lines the player types in the model: every "rc" with r, c in 0..4
\* (so rows/columns -1 and 3 are asked for), flag requests for a corner, an
\* edge cell and two cells off the board, and malformed lines
RevealLines == { <<r, c>> : r \in {"0", "1", "2", "3", "4"}, c \in {"0", "1", "2", "3", "4"} }
FlagLines == { <<"1", "1", "f">>, <<"1", "3", "f">>, <<"0", "3", "f">>, <<"1", "4", "f">> }
BadLines == { <<>>, <<"1">>, <<"a", "b", "c">>, <<"1", "2", "3", "x">>,
              <<"1", "2", "x">>, <<"a", "1">>, <<"1", "a">> }
InputLines == RevealLines \cup FlagLines \cup BadLines

----------------------------------------------------------------------------
(* Game *)

NoCall == [op |-> "none", coord |-> <<0, 0>>, arg |-> FALSE, alive |-> FALSE, err |-> Nil]

\* the loop condition without the revealed-fields test
LoopCond_aliveOnly == isAlive

\* a loop that goes on until every cell, mines included, is revealed
LoopCond_untilAllCells == isAlive /\ revealedFields < rows(fields) * cols(fields)

\* the condition of Game's for loop
LoopCond == isAlive /\ revealedFields < noMineFields

InitGame ==
    /\ impl \in Impls
    /\ fields \in Grids(impl)
    /\ isAlive = TRUE
    /\ revealedFields = 0
    /\ noMineFields = rows(fields) * cols(fields) - mines(fields)
    /\ pc = "loop"
    /\ lastErr = Nil
    /\ outcome = "none"
    /\ revealAllCalls = <<>>
    /\ ret = NoCall
    /\ prev = fields
    /\ ncalls = 0

\* one iteration of the loop on the line `input`
Turn(input, scanErr) ==
    /\ pc = "loop"
    /\ LoopCond
    /\ LET in == readAndParseInput(impl, input, scanErr)
       IN  IF in.err # Nil
           THEN /\ lastErr' = in.err
                /\ UNCHANGED <<fields, isAlive, revealedFields>>
           ELSE IF in.flag
           THEN /\ fields' = flag(impl, fields, in.coord).g
                /\ lastErr' = flag(impl, fields, in.coord).err
                /\ UNCHANGED <<isAlive, revealedFields>>
           ELSE LET r == reveal(impl, fields, in.coord)
                IN  /\ fields' = r.g
                    /\ lastErr' = r.err
                    /\ IF r.err # Nil
                       THEN UNCHANGED <<isAlive, revealedFields>>
                       ELSE /\ isAlive' = r.alive
                            /\ revealedFields' = revealedFields + 1
    /\ UNCHANGED <<impl, noMineFields, pc, outcome, revealAllCalls, ret, prev, ncalls>>

\* the player types a line
ReadLine == \E input \in InputLines : Turn(input, FALSE)

\* the scanner delivers a token and reports an error
ReadError == Turn(<<>>, TRUE)

\* Scan() returns false: os.Exit(0)
EndOfInput ==
    /\ pc = "loop"
    /\ LoopCond
    /\ pc' = "exited"
    /\ UNCHANGED <<impl, fields, isAlive, revealedFields, noMineFields, lastErr,
                   outcome, revealAllCalls, ret, prev, ncalls>>

\* the loop ends: revealAll(isAlive) and the final message
Finish ==
    /\ pc = "loop"
    /\ ~LoopCond
    /\ fields' = revealAll(impl, fields, isAlive)
    /\ revealAllCalls' = Append(revealAllCalls, isAlive)
    /\ outcome' = IF isAlive THEN "YOU WIN!" ELSE "YOU DIE!"
    /\ pc' = "done"
    /\ UNCHANGED <<impl, isAlive, revealedFields, noMineFields, lastErr, ret, prev, ncalls>>

Next == ReadLine \/ ReadError \/ EndOfInput \/ Finish

Spec == InitGame /\ [][Next]_vars

----------------------------------------------------------------------------
(* Game with a player who keeps typing and keeps revealing new cells *)

\* the lines that ask for a cell of the board
BoardLines == { <<r, c>> : r \in {"1", "2", "3"}, c \in {"1", "2", "3"} }

\* what this player types: reveals of cells, of two coordinates off the board,
\* the flag requests and two malformed lines
LiveLines ==
    BoardLines \cup FlagLines \cup { <<"0", "1">>, <<"2", "4">>, <<"1">>, <<"1", "2", "x">> }

\* a turn that reveals a cell of the board not revealed before
GoodReveal ==
    /\ pc = "loop"
    /\ revealedFields' = revealedFields + 1
    /\ \E input \in BoardLines : Turn(input, FALSE)

\* the player types a line
ReadLiveLine == \E input \in LiveLines : Turn(input, FALSE)

\* the input never ends
NextLive == ReadLiveLine \/ Finish

\* the player, whatever else is typed, does not put off a reveal of a new cell
\* forever: a new cell exists exactly while the loop condition holds, so this is
\* weak fairness of GoodReveal with its enabling condition written out
PlayerReveals ==
    \/ []<>(~(pc = "loop" /\ LoopCond))
    \/ []<><<GoodReveal>>_vars

\* Game does not stop between statements
SpecLive == InitGame /\ [][NextLive]_vars /\ WF_vars(Finish) /\ PlayerReveals

----------------------------------------------------------------------------
(* Direct calls on a grid, as a test of the Grid interface makes them *)

\* the coordinates the test driver passes: every cell, and coordinates off the
\* board past each of its four edges and past two of its corners
TestCoords ==
    ((0 .. Rows - 1) \X (0 .. Cols - 1))
        \cup { <<-1, 0>>, <<Rows, 1>>, <<1, -1>>, <<2, Cols>>, <<-1, Cols>>, <<Rows, -1>> }

InitGrid ==
    /\ impl \in Impls
    /\ fields \in Grids(impl)
    /\ isAlive = TRUE
    /\ revealedFields = 0
    /\ noMineFields = rows(fields) * cols(fields) - mines(fields)
    /\ pc = "test"
    /\ lastErr = Nil
    /\ outcome = "none"
    /\ revealAllCalls = <<>>
    /\ ret = NoCall
    /\ prev = fields
    /\ ncalls = 0

CallReveal(coord) ==
    /\ pc = "test"
    /\ ncalls < MaxCalls
    /\ LET r == reveal(impl, fields, coord)
       IN  /\ fields' = r.g
           /\ ret' = [op |-> "reveal", coord |-> coord, arg |-> FALSE,
                      alive |-> r.alive, err |-> r.err]
    /\ prev' = fields
    /\ ncalls' = ncalls + 1
    /\ UNCHANGED <<impl, isAlive, revealedFields, noMineFields, pc, lastErr,
                   outcome, revealAllCalls>>

CallFlag(coord) ==
    /\ pc = "test"
    /\ ncalls < MaxCalls
    /\ LET r == flag(impl, fields, coord)
       IN  /\ fields' = r.g
           /\ ret' = [op |-> "flag", coord |-> coord, arg |-> FALSE,
                      alive |-> FALSE, err |-> r.err]
    /\ prev' = fields
    /\ ncalls' = ncalls + 1
    /\ UNCHANGED <<impl, isAlive, revealedFields, noMineFields, pc, lastErr,
                   outcome, revealAllCalls>>

CallRevealAll(isVictory) ==
    /\ pc = "test"
    /\ ncalls < MaxCalls
    /\ fields' = revealAll(impl, fields, isVictory)
    /\ ret' = [op |-> "revealAll", coord |-> <<0, 0>>, arg |-> isVictory,
               alive |-> FALSE, err |-> Nil]
    /\ revealAllCalls' = Append(revealAllCalls, isVictory)
    /\ prev' = fields
    /\ ncalls' = ncalls + 1
    /\ UNCHANGED <<impl, isAlive, revealedFields, noMineFields, pc, lastErr, outcome>>

RevealStep == \E coord \in TestCoords : CallReveal(coord)
FlagStep == \E coord \in TestCoords : CallFlag(coord)
RevealAllStep == \E isVictory \in BOOLEAN : CallRevealAll(isVictory)

NextGrid == RevealStep \/ FlagStep \/ RevealAllStep

SpecGrid == InitGrid /\ [][NextGrid]_vars

----------------------------------------------------------------------------
(* Construction, called once with arguments of every kind *)

\* the sizes asked for: every accepted size and one below and above
Dims == (RowMin - 1) .. (rowMax + 1)

\* the runs of rand.Shuffle that fit a list of n coordinates
RunsFor(n) ==
    { swaps \in ShuffleRuns :
        \A i \in 1 .. Len(swaps) : swaps[i][1] < n /\ swaps[i][2] < n }

\* lists of pairwise distinct mines inside a grid of the size: what NewMines returns
GoodMineLists(nrows, ncols) ==
    { NewMines(nrows, ncols, count, swaps) :
        count \in 0 .. nrows * ncols, swaps \in RunsFor(nrows * ncols) }

\* lists with one mine outside the grid, first or last
BadMineLists(nrows, ncols) ==
    LET off == { <<-1, 0>>, <<nrows, 0>>, <<0, -1>>, <<0, ncols>> }
        good == { NewMines(nrows, ncols, count, <<>>) : count \in 0 .. nrows * ncols }
    IN  { <<b>> \o l : b \in off, l \in good } \cup { Append(l, b) : b \in off, l \in good }

InitNew ==
    /\ impl \in Impls
    /\ fields = <<>>
    /\ isAlive = TRUE
    /\ revealedFields = 0
    /\ noMineFields = 0
    /\ pc = "new"
    /\ lastErr = Nil
    /\ outcome = "none"
    /\ revealAllCalls = <<>>
    /\ ret = NoCall
    /\ prev = <<>>
    /\ ncalls = 0

\* minefield, err := NewGrid(nrows, ncols, ms); a nil Grid is <<>>
CallNewGrid(nrows, ncols, ms, minesNil) ==
    /\ pc = "new"
    /\ LET r == NewGrid(impl, nrows, ncols, ms, minesNil)
       IN  /\ fields' = r.g
           /\ ret' = [op |-> "NewGrid", nrows |-> nrows, ncols |-> ncols, mines |-> ms,
                      minesNil |-> minesNil, err |-> r.err]
    /\ pc' = "built"
    /\ UNCHANGED <<impl, isAlive, revealedFields, noMineFields, lastErr, outcome,
                   revealAllCalls, prev, ncalls>>

\* NewGrid on a list NewMines made
NewOnGood ==
    /\ pc = "new"
    /\ \E nrows \in Dims, ncols \in Dims :
        \E ms \in GoodMineLists(nrows, ncols) : CallNewGrid(nrows, ncols, ms, FALSE)

\* NewGrid on a list with a mine outside the grid
NewOnBad ==
    /\ pc = "new"
    /\ \E nrows \in Dims, ncols \in Dims :
        \E ms \in BadMineLists(nrows, ncols) : CallNewGrid(nrows, ncols, ms, FALSE)

\* NewGrid on a nil slice
NewOnNil ==
    /\ pc = "new"
    /\ \E nrows \in Dims, ncols \in Dims : CallNewGrid(nrows, ncols, <<>>, TRUE)

NextNew == NewOnGood \/ NewOnBad \/ NewOnNil

SpecNew == InitNew /\ [][NextNew]_vars

----------------------------------------------------------------------------
(* Parsing, called once on lines of every kind *)

\* the bytes the lines are made of
Bytes == {"0", "1", "2", "3", "9", "a", "b", "c", "f", "x"}

Lines == UNION { [1 .. n -> Bytes] : n \in 0 .. MaxLine }

InitParse ==
    /\ impl \in Impls
    /\ fields = <<>>
    /\ isAlive = TRUE
    /\ revealedFields = 0
    /\ noMineFields = 0
    /\ pc = "parse"
    /\ lastErr = Nil
    /\ outcome = "none"
    /\ revealAllCalls = <<>>
    /\ ret = NoCall
    /\ prev = <<>>
    /\ ncalls = 0

\* coord, flag, err := readAndParseInput(inputScanner)
CallParse(input, scanErr) ==
    /\ pc = "parse"
    /\ LET r == readAndParseInput(impl, input, scanErr)
       IN  ret' = [op |-> "readAndParseInput", input |-> input, scanErr |-> scanErr,
                   coord |-> r.coord, flag |-> r.flag, err |-> r.err]
    /\ pc' = "parsed"
    /\ UNCHANGED <<impl, fields, isAlive, revealedFields, noMineFields, lastErr, outcome,
                   revealAllCalls, prev, ncalls>>

ParseLine == pc = "parse" /\ \E input \in Lines : CallParse(input, FALSE)

ParseScanError == CallParse(<<>>, TRUE)

NextParse == ParseLine \/ ParseScanError

SpecParse == InitParse /\ [][NextParse]_vars

----------------------------------------------------------------------------
(* What the properties below speak of, stated on the board itself *)

Board == (0 .. Rows - 1) \X (0 .. Cols - 1)

At(g, rc) == g[rc[1]][rc[2]]

OnBoard(coord) == coord[1] \in 0 .. Rows - 1 /\ coord[2] \in 0 .. Cols - 1

\* the mine cells among the up-to-8 neighbours of rc
NeighbourMines(g, rc) ==
    Cardinality({n \in Board : /\ n # rc
                               /\ n[1] - rc[1] \in {-1, 0, 1}
                               /\ n[2] - rc[2] \in {-1, 0, 1}
                               /\ At(g, n).isMine})

MineRevealed(g) == \E rc \in Board : At(g, rc).isMine /\ At(g, rc).isRevealed

AllNonMinesRevealed(g) == \A rc \in Board : At(g, rc).isMine \/ At(g, rc).isRevealed

\* the states of the Game loop, read off the loop's own variables
InProgress == pc = "loop" /\ LoopCond
Won == pc \in {"loop", "done"} /\ ~LoopCond /\ isAlive
Lost == pc \in {"loop", "done"} /\ ~LoopCond /\ ~isAlive

\* the last direct call was a reveal / a flag of coordinate ret.coord
Revealed == ret.op = "reveal"
Flagged == ret.op = "flag"

----------------------------------------------------------------------------
(* C1 - revealAll(outcome) leaves every mine cell revealed with            *)
(* isFlagged = outcome and every other cell as it was.                     *)
(* Stated on the direct calls (SpecGrid); internal.go's revealAll violates *)
(* it, minesweeper.go's does not.                                          *)
C1_RevealAllDisclosesMines ==
    ret.op = "revealAll" =>
        \A rc \in Board :
            IF At(prev, rc).isMine
            THEN At(fields, rc).isRevealed /\ At(fields, rc).isFlagged = ret.arg
            ELSE At(fields, rc) = At(prev, rc)

(* C2 - in the state Game leaves behind every mine is revealed, flagged    *)
(* if the game was won and unflagged if it was lost.                       *)
C2_FinalBoardDisclosed ==
    pc = "done" =>
        \A rc \in Board :
            At(fields, rc).isMine =>
                /\ At(fields, rc).isRevealed
                /\ At(fields, rc).isFlagged = (outcome = "YOU WIN!")

(* C3 - while the loop runs, the game is Lost exactly when a mine cell is  *)
(* revealed and Won exactly when every non-mine cell is revealed and no    *)
(* mine is; the final message is the one of the state the loop ended in.   *)
C3_OutcomeMatchesBoard ==
    /\ pc = "loop" =>
        /\ Lost <=> MineRevealed(fields)
        /\ Won <=> (AllNonMinesRevealed(fields) /\ ~MineRevealed(fields))
        /\ InProgress <=> (~AllNonMinesRevealed(fields) /\ ~MineRevealed(fields))
    /\ pc = "done" =>
        /\ outcome = "YOU WIN!" <=> Won
        /\ outcome = "YOU DIE!" <=> Lost
        /\ Won => AllNonMinesRevealed(fields)

C3_WonOnOneMineBoard ==
    /\ pc = "done"
    /\ outcome = "YOU WIN!"
    /\ At(prev, <<0, 0>>).isMine
    /\ mines(prev) = 1
    /\ revealedFields = 8

(* C4 - from a board on which the game is over (a mine revealed, or every  *)
(* non-mine cell revealed) the loop takes no turn: the one step that       *)
(* follows is the single revealAll call, with argument TRUE exactly when   *)
(* the game is won, and nothing follows that step.  A turn is seen by what *)
(* it changes: the board, the counters, the error printed.                 *)
C4_Terminal ==
    [][ /\ (pc = "loop" /\ (MineRevealed(fields) \/ AllNonMinesRevealed(fields))) =>
            /\ pc' = "done"
            /\ revealAllCalls = <<>>
            /\ revealAllCalls' = <<~MineRevealed(fields)>>
            /\ UNCHANGED <<isAlive, revealedFields, lastErr>>
            /\ \A rc \in Board :
                  /\ At(fields', rc).isMine = At(fields, rc).isMine
                  /\ At(fields', rc).adjacentMines = At(fields, rc).adjacentMines
                  /\ ~At(fields, rc).isMine => At(fields', rc) = At(fields, rc)
        /\ (pc = "loop" /\ ~(MineRevealed(fields) \/ AllNonMinesRevealed(fields))) =>
            (pc' # "done" /\ revealAllCalls' = <<>>)
        /\ pc = "done" => FALSE
      ]_vars

C4_LostAndDisclosed ==
    /\ pc = "done"
    /\ revealAllCalls = <<FALSE>>
    /\ revealedFields >= 2
    /\ \E rc \in Board : At(fields, rc).isFlagged /\ ~At(fields, rc).isMine

(* C5 - reveal of a cell of the board that is neither revealed nor a mine  *)
(* returns (true, nil) and sets the cell's adjacentMines to the number of  *)
(* mines among its neighbours.                                             *)
C5_RevealCountsNeighbours ==
    (Revealed /\ OnBoard(ret.coord)
        /\ ~At(prev, ret.coord).isRevealed /\ ~At(prev, ret.coord).isMine) =>
            /\ ret.alive
            /\ ret.err = Nil
            /\ At(fields, ret.coord).isRevealed
            /\ At(fields, ret.coord).adjacentMines = NeighbourMines(prev, ret.coord)

C5_CentreSeesEight ==
    /\ Revealed
    /\ ret.coord = <<1, 1>>
    /\ ret.err = Nil
    /\ ret.alive
    /\ At(fields, <<1, 1>>).adjacentMines = 8
    /\ ncalls >= 2

(* C6 - reveal of a mine cell of the board that is not revealed returns    *)
(* (false, nil), marks the cell revealed and leaves its adjacentMines 0.   *)
C6_RevealMine ==
    (Revealed /\ OnBoard(ret.coord)
        /\ ~At(prev, ret.coord).isRevealed /\ At(prev, ret.coord).isMine) =>
            /\ ~ret.alive
            /\ ret.err = Nil
            /\ At(fields, ret.coord).isRevealed
            /\ At(fields, ret.coord).adjacentMines = At(prev, ret.coord).adjacentMines
            /\ At(fields, ret.coord).adjacentMines = 0

C6_MineAmongMines ==
    /\ Revealed
    /\ OnBoard(ret.coord)
    /\ ~ret.alive
    /\ ret.err = Nil
    /\ At(fields, ret.coord).isMine
    /\ ~At(prev, ret.coord).isRevealed
    /\ NeighbourMines(prev, ret.coord) >= 2

(* C7 - reveal of a cell that is already revealed fails with "already      *)
(* defused" and leaves the whole grid as it was.                           *)
C7_RevealTwice ==
    (Revealed /\ OnBoard(ret.coord) /\ At(prev, ret.coord).isRevealed) =>
        /\ ret.err = ErrAlreadyDefused
        /\ fields = prev

C7_SecondRevealRejected ==
    /\ Revealed
    /\ OnBoard(ret.coord)
    /\ ret.err = ErrAlreadyDefused
    /\ ~At(fields, ret.coord).isMine
    /\ At(fields, ret.coord).adjacentMines >= 1

(* C8 - reveal and flag of a coordinate off the board fail with "invalid   *)
(* row or column" and leave the whole grid as it was.                      *)
C8_OutOfBounds ==
    ((Revealed \/ Flagged) /\ ~OnBoard(ret.coord)) =>
        /\ ret.err = ErrInvalidRowCol
        /\ fields = prev

C8_FlagOffBoard ==
    /\ Flagged
    /\ ret.coord = <<-1, Cols>>
    /\ ret.err = ErrInvalidRowCol
    /\ ncalls >= 2
    /\ \E rc \in Board : At(fields, rc).isFlagged

(* C9 - a loop iteration that prints an error leaves the board, isAlive    *)
(* and revealedFields as they were, and the loop goes on.                  *)
C9_ErrorsChangeNothing ==
    [][ (pc = "loop" /\ pc' = "loop" /\ lastErr' # Nil) =>
            /\ UNCHANGED <<fields, isAlive, revealedFields, noMineFields>>
            /\ InProgress'
      ]_vars

C9_ErrorMidGame ==
    /\ InProgress
    /\ lastErr = ErrAlreadyDefused
    /\ revealedFields >= 1
    /\ \E rc \in Board : At(fields, rc).isFlagged

(* C10 - no call changes any cell's isMine: the number of mines stays the  *)
(* one the grid was constructed with.                                      *)
C10_MinesFixed ==
    /\ \A rc \in Board : At(fields, rc).isMine = At(prev, rc).isMine
    /\ mines(fields) = mines(prev)
    /\ mines(fields) = rows(fields) * cols(fields) - noMineFields

C10_AfterMineRevealedAndRevealAll ==
    /\ ret.op = "revealAll"
    /\ ncalls >= 2
    /\ mines(fields) >= 2
    /\ MineRevealed(fields)

(* C11 - NewGrid on a size in [3,9] x [3,9] and a list of pairwise distinct *)
(* mines inside the grid succeeds: the grid has the size asked for, isMine  *)
(* holds exactly at the listed coordinates, every cell is unrevealed,       *)
(* unflagged, with adjacentMines 0, and mines() is the length of the list.  *)
(* As amended: when the list is not a nil slice.                            *)
SizeAccepted == ret.nrows \in RowMin .. rowMax /\ ret.ncols \in ColMin .. colMax

MineInside(m) == m[1] \in 0 .. ret.nrows - 1 /\ m[2] \in 0 .. ret.ncols - 1

MinesDistinctInside ==
    /\ \A i \in 1 .. Len(ret.mines) : MineInside(ret.mines[i])
    /\ \A i, j \in 1 .. Len(ret.mines) : i # j => ret.mines[i] # ret.mines[j]

GridAsListed ==
    /\ ret.err = Nil
    /\ DOMAIN fields = 0 .. ret.nrows - 1
    /\ \A row \in DOMAIN fields : DOMAIN fields[row] = 0 .. ret.ncols - 1
    /\ rows(fields) = ret.nrows
    /\ cols(fields) = ret.ncols
    /\ \A row \in 0 .. ret.nrows - 1 : \A col \in 0 .. ret.ncols - 1 :
          fields[row][col] =
              [ZeroField EXCEPT !.isMine =
                  \E i \in 1 .. Len(ret.mines) : ret.mines[i] = <<row, col>>]
    /\ mines(fields) = Len(ret.mines)

C11_NewGridBuildsNonNil ==
    (ret.op = "NewGrid" /\ SizeAccepted /\ MinesDistinctInside /\ ~ret.minesNil)
        => GridAsListed

\* C11 as claimed: for every list, the nil slice included
C11_NewGridBuildsAnyList ==
    (ret.op = "NewGrid" /\ SizeAccepted /\ MinesDistinctInside) => GridAsListed

C11_LargestGridFull ==
    /\ ret.op = "NewGrid"
    /\ ret.nrows = rowMax
    /\ ret.ncols = colMax
    /\ Len(ret.mines) = rowMax * colMax
    /\ MinesDistinctInside
    /\ ret.err = Nil
    /\ mines(fields) = rowMax * colMax

(* C12 - NewGrid fails with "invalid grid size" and no grid when rows or   *)
(* cols is outside [3,9], whatever the mines are, and with "invalid mine"  *)
(* and no grid when the size is accepted and a mine lies outside the grid. *)
(* As amended: when the list is not a nil slice.                           *)
NewGridRejects ==
    /\ ~SizeAccepted => (ret.err = ErrInvalidSize /\ fields = <<>>)
    /\ (SizeAccepted /\ \E i \in 1 .. Len(ret.mines) : ~MineInside(ret.mines[i]))
          => (ret.err = ErrInvalidMine /\ fields = <<>>)

C12_NewGridRejectsNonNil ==
    (ret.op = "NewGrid" /\ ~ret.minesNil) => NewGridRejects

\* C12 as claimed: for every list, the nil slice included
C12_NewGridRejectsAnyList ==
    ret.op = "NewGrid" => NewGridRejects

C12_SizeBeforeMine ==
    /\ ret.op = "NewGrid"
    /\ ~ret.minesNil
    /\ ret.nrows = rowMax + 1
    /\ \E i \in 1 .. Len(ret.mines) : ~MineInside(ret.mines[i])
    /\ ret.err = ErrInvalidSize
    /\ fields = <<>>

(* C13 - flags have no effect on play.  In every state of the loop, reveal *)
(* and flag of any coordinate give, on the grid and on the same grid with  *)
(* every flag cleared, the same results and grids that differ in flags     *)
(* only; and every loop step either leaves the flag-free grid, isAlive and *)
(* revealedFields as they were (a flag toggle, an error), or is the reveal *)
(* the flag-free grid makes, with no flag changed.                         *)
Unflag(g) ==
    [row \in DOMAIN g |-> [col \in DOMAIN g[row] |->
        [g[row][col] EXCEPT !.isFlagged = FALSE]]]

FlagsUnseen ==
    \A coord \in TestCoords :
        LET a == reveal(impl, fields, coord)
            b == reveal(impl, Unflag(fields), coord)
            fa == flag(impl, fields, coord)
            fb == flag(impl, Unflag(fields), coord)
        IN  /\ a.alive = b.alive
            /\ a.err = b.err
            /\ Unflag(a.g) = b.g
            /\ fa.err = fb.err
            /\ Unflag(fa.g) = Unflag(fields)

C13_FlagsHaveNoEffect ==
    /\ [](pc = "loop" => FlagsUnseen)
    /\ [][ (pc = "loop" /\ pc' = "loop") =>
             \/ /\ Unflag(fields') = Unflag(fields)
                /\ UNCHANGED <<isAlive, revealedFields>>
             \/ /\ \A rc \in Board : At(fields', rc).isFlagged = At(fields, rc).isFlagged
                /\ \E coord \in Board :
                      LET b == reveal(impl, Unflag(fields), coord)
                      IN  /\ b.err = Nil
                          /\ Unflag(fields') = b.g
                          /\ isAlive' = b.alive
                          /\ revealedFields' = revealedFields + 1
         ]_vars

C13_FlaggedCellsInPlay ==
    /\ InProgress
    /\ revealedFields >= 2
    /\ \E rc \in Board : At(fields, rc).isFlagged /\ At(fields, rc).isRevealed
    /\ \E rc \in Board : At(fields, rc).isFlagged /\ ~At(fields, rc).isRevealed

(* C14 - a successful reveal changes the cell at the coordinate only, and  *)
(* of that cell neither isFlagged nor isMine.                              *)
C14_RevealOneCell ==
    (Revealed /\ ret.err = Nil) =>
        /\ OnBoard(ret.coord)
        /\ \A rc \in Board : rc # ret.coord => At(fields, rc) = At(prev, rc)
        /\ At(fields, ret.coord).isFlagged = At(prev, ret.coord).isFlagged
        /\ At(fields, ret.coord).isMine = At(prev, ret.coord).isMine

C14_ZeroCellNoFlood ==
    /\ Revealed
    /\ ret.err = Nil
    /\ ret.alive
    /\ ret.coord = <<1, 1>>
    /\ At(fields, ret.coord).adjacentMines = 0
    /\ \A rc \in Board : rc # ret.coord => ~At(fields, rc).isRevealed

(* C15 - a flag of a cell of the board directly after a flag of the same   *)
(* cell gives back the grid as it was before the first of the two.         *)
C15_FlagTwice ==
    [][ ( /\ Flagged /\ ret.err = Nil
          /\ ret'.op = "flag" /\ ret'.coord = ret.coord
          /\ ncalls' = ncalls + 1 ) => fields' = prev ]_vars

C15_ToggledBack ==
    /\ Flagged
    /\ ret.err = Nil
    /\ ncalls = 2
    /\ ~At(fields, ret.coord).isMine
    /\ At(prev, ret.coord).isFlagged
    /\ \A rc \in Board : ~At(fields, rc).isFlagged /\ ~At(fields, rc).isRevealed

(* C17 - flag of a cell of the board succeeds whatever the cell's state    *)
(* and negates the cell's isFlagged; nothing else of the grid changes.     *)
C17_FlagTogglesOnly ==
    (Flagged /\ OnBoard(ret.coord)) =>
        /\ ret.err = Nil
        /\ fields = [prev EXCEPT ![ret.coord[1]][ret.coord[2]].isFlagged =
                        ~At(prev, ret.coord).isFlagged]

C17_FlagOnRevealedMine ==
    /\ Flagged
    /\ OnBoard(ret.coord)
    /\ ret.err = Nil
    /\ At(prev, ret.coord).isRevealed
    /\ At(prev, ret.coord).isMine
    /\ At(fields, ret.coord).isFlagged

(* C18 - String writes for a cell the flag glyph if it is flagged, else    *)
(* the hidden glyph if it is not revealed, else the mine glyph if it is a  *)
(* mine, else the digit glyph of adjacentMines; adjacentMines is in 0..8   *)
(* for every cell, so the digit lookup does not fail.                      *)
C18_Glyphs ==
    pc = "test" =>
      LET text == String(fields) IN
        \A rc \in Board :
            LET f == At(fields, rc)
                glyph == text[rc[1] + 2].cells[rc[2]]
            IN  /\ f.adjacentMines \in 0 .. 8
                /\ adjacentMinesGlyph(f.adjacentMines).err = Nil
                /\ f.isFlagged => glyph = FlagGlyph
                /\ (~f.isFlagged /\ ~f.isRevealed) => glyph = HiddenGlyph
                /\ (~f.isFlagged /\ f.isRevealed /\ f.isMine) => glyph = MineGlyph
                /\ (~f.isFlagged /\ f.isRevealed /\ ~f.isMine) =>
                      glyph = FullwidthZero + f.adjacentMines
                /\ Cardinality({FlagGlyph, HiddenGlyph, MineGlyph}) = 3
                /\ {FlagGlyph, HiddenGlyph, MineGlyph}
                      \cap {FullwidthZero + n : n \in 0 .. 8} = {}

C18_FlagOverEight ==
    /\ pc = "test"
    /\ At(fields, <<1, 1>>).isRevealed
    /\ At(fields, <<1, 1>>).adjacentMines = 8
    /\ At(fields, <<1, 1>>).isFlagged
    /\ String(fields)[3].cells[1] = FlagGlyph
    /\ String(prev)[3].cells[1] = FullwidthZero + 8

(* C19 - whenever the loop condition is evaluated, revealedFields is the   *)
(* number of revealed cells, isAlive holds exactly when no mine is         *)
(* revealed, and while alive revealedFields is at most rows*cols - mines.  *)
C19_CounterMatchesBoard ==
    pc = "loop" =>
        /\ revealedFields = Cardinality({rc \in Board : At(fields, rc).isRevealed})
        /\ isAlive <=> ~MineRevealed(fields)
        /\ isAlive => revealedFields <= Rows * Cols - mines(fields)

C19_AfterRejectedReveal ==
    /\ InProgress
    /\ revealedFields >= 3
    /\ lastErr = ErrAlreadyDefused

(* C16 - readAndParseInput accepts exactly the lines of 2 or 3 bytes whose *)
(* first two bytes are digits and whose third byte, if any, is 'f', and    *)
(* returns (first digit - 1, second digit - 1, a third byte is there);     *)
(* every other line gives "invalid input".                                 *)
(* As amended: the digits are 0-9, and a digit 0 gives the coordinate -1.  *)
DigitValue ==
    "0" :> 0 @@ "1" :> 1 @@ "2" :> 2 @@ "3" :> 3 @@ "4" :> 4 @@
    "5" :> 5 @@ "6" :> 6 @@ "7" :> 7 @@ "8" :> 8 @@ "9" :> 9

\* the line is row digit, column digit and an optional 'f', the digits from ds
WellFormed(input, ds) ==
    /\ Len(input) \in {2, 3}
    /\ input[1] \in ds
    /\ input[2] \in ds
    /\ Len(input) = 3 => input[3] = "f"

ParsesAs(ds) ==
    IF WellFormed(ret.input, ds)
    THEN /\ ret.err = Nil
         /\ ret.coord = <<DigitValue[ret.input[1]] - 1, DigitValue[ret.input[2]] - 1>>
         /\ ret.flag = (Len(ret.input) = 3)
    ELSE ret.err = ErrInvalidInput

C16_ParsesDigits0to9 ==
    (ret.op = "readAndParseInput" /\ ~ret.scanErr) => ParsesAs(DOMAIN DigitValue)

\* C16 as claimed: the digits are 1-9
C16_ParsesDigits1to9 ==
    (ret.op = "readAndParseInput" /\ ~ret.scanErr) => ParsesAs(DOMAIN DigitValue \ {"0"})

C16_FlagRow1Col3 ==
    /\ ret.op = "readAndParseInput"
    /\ ret.input = <<"1", "3", "f">>
    /\ ret.coord = <<0, 2>>
    /\ ret.flag
    /\ ret.err = Nil

(* C20 - Game makes at most rows*cols - mines successful reveals; when the *)
(* player keeps revealing new cells it reaches its final message; on a     *)
(* grid of mines only it is won without a turn.                            *)
C20_GameEnds ==
    /\ [](revealedFields <= noMineFields)
    /\ [](noMineFields = 0 => (isAlive /\ revealedFields = 0 /\ lastErr = Nil
                                /\ outcome # "YOU DIE!" /\ ~InProgress))
    /\ <>(pc = "done" /\ (Won \/ Lost) /\ outcome # "none")

C20_WonAfterFlagsAndErrors ==
    /\ pc = "done"
    /\ outcome = "YOU WIN!"
    /\ revealedFields = noMineFields
    /\ noMineFields >= 5
    /\ \E rc \in Board : At(fields, rc).isFlagged /\ ~At(fields, rc).isMine

====
